---- MODULE Spec2Model ----
(***************************************************************************)
(* Workshop session lifecycle of the Docker Workshop Platform backend.     *)
(*                                                                         *)
(* The model follows the Express router of the workshop sessions           *)
(* (POST/GET/DELETE /api/workshops/sessions), the workshop_sessions table  *)
(* it reads and writes, and the workshop section of the configuration.     *)
(*                                                                         *)
(* Granularity: every `await query(...)` of a handler is one atomic step   *)
(* (the statement executes in the database and the handler's synchronous   *)
(* continuation up to the next await runs with it).  Requests of           *)
(* different callers interleave between these steps.  The lab lookup of    *)
(* POST reads only the labs table, which no modelled operation writes, so  *)
(* it is taken together with the arrival of the request.                   *)
(*                                                                         *)
(* Time is counted in hours; Date.now() and CURRENT_TIMESTAMP read the     *)
(* same clock `now`.                                                       *)
(***************************************************************************)
EXTENDS Integers, Sequences, FiniteSets, TLC

\* ---------------------------------------------------------------- bounds
MaxTime     == 3      \* the clock runs from 0 to MaxTime
MaxRequests == 2      \* requests the server receives in one run
MaxInFlight == 2      \* requests that can be in progress together
RaceRequests == 4     \* requests received in a run of SpecRace

\* ------------------------------------------------------- program constants
maxSessions           == 3    \* const maxSessions = 3; // From config
SessionHours          == 2    \* Date.now() + 2 * 60 * 60 * 1000
DefaultMaxPerUser     == 3    \* MAX_SESSIONS_PER_USER || '3'
DefaultMaxConcurrent  == 500  \* MAX_CONCURRENT_SESSIONS || '500'
DefaultTimeoutMinutes == 120  \* SESSION_TIMEOUT_MINUTES || '120'
DefaultCleanupSeconds == 300  \* CLEANUP_INTERVAL_SECONDS || '300'
MaxExtensionHours     == 1    \* ('max_session_extension_minutes', '60', ...)

NULL  == -1           \* SQL NULL of a TIMESTAMP column
UNSET == 0            \* an environment variable that is not set

Users == {"u1", "u2"}                 \* authenticated callers (req.user.id)
Slots == 1..MaxInFlight

\* users.role of the callers (req.user.role): u2 is the seeded administrator
RoleOf == [u1 |-> "student", u2 |-> "admin"]

\* hours a caller asks a session to be extended by ({minutes} of the client)
ExtendArgs == {1, 2}

\* labs table: id -> is_published.  "lab9" is an id with no row.
LabsTable  == [lab1 |-> TRUE, lab2 |-> FALSE]
NoLabId    == ""                      \* request body without labId
LabIdArgs  == {"lab1", "lab2", "lab9", NoLabId}

Terminal == {"completed", "expired", "failed"}
Live     == {"pending", "active"}

\* process.env as far as config.workshop reads it
DefaultEnv == [MAX_SESSIONS_PER_USER |-> UNSET, MAX_CONCURRENT_SESSIONS |-> UNSET,
               SESSION_TIMEOUT_MINUTES |-> UNSET, CLEANUP_INTERVAL_SECONDS |-> UNSET]
SmallEnv   == [MAX_SESSIONS_PER_USER |-> 1, MAX_CONCURRENT_SESSIONS |-> 1,
               SESSION_TIMEOUT_MINUTES |-> 60, CLEANUP_INTERVAL_SECONDS |-> UNSET]
Envs       == {DefaultEnv, SmallEnv}

VARIABLES
  now,        \* the clock
  env,        \* process.env, fixed at start-up
  sessions,   \* workshop_sessions: sequence of rows, the id of a row is its index
  req,        \* per slot: the request in progress and its locals
  users,      \* ids of the registered users (the callers authMiddleware lets through)
  budget,     \* number of requests the run can still receive
  last        \* the request that finished last, with its response

vars == <<now, env, sessions, req, users, budget, last>>

\* parseInt(process.env.X || 'd', 10)
EnvInt(v, d) == IF v = UNSET THEN d ELSE v

\* config.workshop
Config ==
  [maxConcurrentSessions  |-> EnvInt(env.MAX_CONCURRENT_SESSIONS, DefaultMaxConcurrent),
   sessionTimeoutMinutes  |-> EnvInt(env.SESSION_TIMEOUT_MINUTES, DefaultTimeoutMinutes),
   maxSessionsPerUser     |-> EnvInt(env.MAX_SESSIONS_PER_USER, DefaultMaxPerUser),
   cleanupIntervalSeconds |-> EnvInt(env.CLEANUP_INTERVAL_SECONDS, DefaultCleanupSeconds)]

Ids == 1..Len(sessions)

\* The lab SELECT without its is_published condition.
LabRowsUnpublishedToo(labId) ==
  IF labId \in DOMAIN LabsTable THEN <<labId>> ELSE <<>>

\* SELECT id, title FROM labs WHERE id = $1 AND is_published = true
LabRows(labId) ==
  IF labId \in DOMAIN LabsTable /\ LabsTable[labId] THEN <<labId>> ELSE <<>>

\* SELECT COUNT(*) FROM workshop_sessions WHERE user_id = $1 AND status = 'active'
ActiveCount(u) ==
  Cardinality({i \in Ids : sessions[i].user_id = u /\ sessions[i].status = "active"})

\* count(status = active) over all owners
GlobalActiveCount ==
  Cardinality({i \in Ids : sessions[i].status = "active"})

\* ------------------------------------------------------------ request slots
NoRes == [status |-> 0, error |-> "", body |-> {}]
Idle  == [pc |-> "idle", method |-> "", user |-> "", labId |-> "", id |-> 0,
          activeSessionCount |-> 0, instanceId |-> <<>>, expiresAt |-> NULL,
          rows |-> <<>>, nowRead |-> NULL, res |-> NoRes]

\* res.status(code).json(...) / sendErrorResponse: the handler is finished
Done(slot, code, err, body) ==
  [slot EXCEPT !.pc = "done", !.res = [status |-> code, error |-> err, body |-> body]]

\* ------------------------------------------------------------------ rows
\* `ws-${Date.now()}-${Math.random().toString(36).substr(2, 9)}`: the pair of
\* the clock reading and the random suffix.
InstanceId(t, sfx) == <<t, sfx>>

\* `https://workshop-demo.docker-learn.com/?session=${instanceId}`
WorkspaceUrl(instanceId) == <<"https://workshop-demo.docker-learn.com/?session=", instanceId>>

\* Suffixes drawn at clock reading t that are stored or held by a request in
\* progress, and the least suffix not among them.  Math.random() may repeat
\* any of the former or produce a new one; all new ones behave alike.
UsedSuffixes(t) ==
  {sessions[i].instance_id[2] : i \in {j \in Ids : sessions[j].instance_id[1] = t}}
    \cup {req[r].instanceId[2] : r \in {q \in Slots : req[q].pc = "insert" /\ req[q].instanceId[1] = t}}
FreshSuffix(t) == CHOOSE n \in 1..(MaxRequests + RaceRequests) :
                    /\ n \notin UsedSuffixes(t)
                    /\ \A m \in 1..(n - 1) : m \in UsedSuffixes(t)
RandomSuffixes(t) == UsedSuffixes(t) \cup {FreshSuffix(t)}

\* Expiration computed by the handler: new Date(Date.now() + 2 * 60 * 60 * 1000)
ExpiresAtFor(t) == t + SessionHours

\* The INSERT without its status value: the column default 'pending' applies.
NewSessionRowDefaultStatus(newId, u, labId, instanceId, expiresAt, t) ==
  [id |-> newId, user_id |-> u, lab_id |-> labId, instance_id |-> instanceId,
   workspace_url |-> WorkspaceUrl(instanceId), status |-> "pending",
   expires_at |-> expiresAt, started_at |-> t, ended_at |-> NULL,
   created_at |-> t, updated_at |-> t]

\* INSERT INTO workshop_sessions (...) VALUES ($1, $2, $3, $4, 'active', $5,
\*   CURRENT_TIMESTAMP, CURRENT_TIMESTAMP, CURRENT_TIMESTAMP); ended_at is left NULL
NewSessionRow(newId, u, labId, instanceId, expiresAt, t) ==
  [id |-> newId, user_id |-> u, lab_id |-> labId, instance_id |-> instanceId,
   workspace_url |-> WorkspaceUrl(instanceId), status |-> "active",
   expires_at |-> expiresAt, started_at |-> t, ended_at |-> NULL,
   created_at |-> t, updated_at |-> t]

\* The expiry check without its comparison of the status.
IsOverdueAnyStatus(t, row) == t > row.expires_at

\* The expiry check without its comparison of the clock.
IsOverdueAnyTime(t, row) == row.status = "active"

\* if (now > expiresAt && session.status === 'active')
IsOverdue(t, row) == t > row.expires_at /\ row.status = "active"

\* The expiry UPDATE with started_at set to the time of the call as well.
ExpireRowMovesStart(row, t) ==
  [row EXCEPT !.status = "expired", !.ended_at = t, !.updated_at = t,
              !.started_at = t]

\* SET status = 'expired', ended_at = CURRENT_TIMESTAMP, updated_at = CURRENT_TIMESTAMP
ExpireRow(row, t) ==
  [row EXCEPT !.status = "expired", !.ended_at = t, !.updated_at = t]

\* The termination UPDATE with expires_at set to the time of the call as well.
TerminateRowCutsExpiry(row, t) ==
  [row EXCEPT !.status = "completed", !.ended_at = t, !.updated_at = t,
              !.expires_at = t]

\* The termination UPDATE without ended_at.
TerminateRowNoEndedAt(row, t) ==
  [row EXCEPT !.status = "completed", !.updated_at = t]

\* SET status = 'completed', ended_at = CURRENT_TIMESTAMP, updated_at = CURRENT_TIMESTAMP
TerminateRow(row, t) ==
  [row EXCEPT !.status = "completed", !.ended_at = t, !.updated_at = t]

\* The SELECT of one session without its user_id condition.
SelectAnyOwner(id, u) ==
  IF id \in Ids THEN <<sessions[id]>> ELSE <<>>

\* SELECT ... FROM workshop_sessions WHERE id = $1 AND user_id = $2
SelectOwned(id, u) ==
  IF id \in Ids /\ sessions[id].user_id = u THEN <<sessions[id]>> ELSE <<>>

\* The termination UPDATE's WHERE with a condition on the deadline added.
MatchActiveOwnedInTime(id, u) ==
  {i \in Ids : /\ i = id /\ sessions[i].user_id = u
               /\ sessions[i].status = "active" /\ now <= sessions[i].expires_at}

\* The termination UPDATE's WHERE without its status condition.
MatchOwnedAnyStatus(id, u) ==
  {i \in Ids : i = id /\ sessions[i].user_id = u}

\* rows matched by WHERE id = $1 AND user_id = $2 AND status = 'active'
MatchActiveOwned(id, u) ==
  {i \in Ids : i = id /\ sessions[i].user_id = u /\ sessions[i].status = "active"}

\* body of the 201 response
CreatedJson(row) ==
  [id |-> row.id, userId |-> row.user_id, labId |-> row.lab_id,
   instanceId |-> row.instance_id, workspaceUrl |-> row.workspace_url,
   status |-> row.status, expiresAt |-> row.expires_at,
   startedAt |-> row.started_at, createdAt |-> row.created_at]

\* body of GET /sessions/:id and the elements of GET /sessions
SessionJson(row) ==
  [id |-> row.id, userId |-> row.user_id, labId |-> row.lab_id,
   instanceId |-> row.instance_id, workspaceUrl |-> row.workspace_url,
   status |-> row.status, expiresAt |-> row.expires_at,
   startedAt |-> row.started_at, endedAt |-> row.ended_at,
   createdAt |-> row.created_at, updatedAt |-> row.updated_at]

\* ------------------------------------------------------------------ Init
Init ==
  /\ now = 0
  /\ env \in Envs
  /\ sessions = <<>>
  /\ req = [r \in Slots |-> Idle]
  /\ users = Users
  /\ budget = MaxRequests
  /\ last = Idle

\* One owner, default configuration, room for one request more than the
\* hard-coded per-user limit.
InitRace ==
  /\ now = 0
  /\ env = DefaultEnv
  /\ sessions = <<>>
  /\ req = [r \in Slots |-> Idle]
  /\ users = {"u1"}
  /\ budget = RaceRequests
  /\ last = Idle

\* The race of InitRace with the per-user limit configured as 1.
InitRaceSmall ==
  /\ now = 0
  /\ env = SmallEnv
  /\ sessions = <<>>
  /\ req = [r \in Slots |-> Idle]
  /\ users = {"u1"}
  /\ budget = RaceRequests
  /\ last = Idle

\* The row stored by the first POST /sessions {labId: lab1} of u1 at time 0.
FirstRow ==
  NewSessionRow(1, "u1", "lab1", InstanceId(0, 1), ExpiresAtFor(0), 0)

\* The server right after it answered that first POST (default
\* configuration), with MaxRequests requests still to come.
InitCreated ==
  /\ now = 0
  /\ env = DefaultEnv
  /\ sessions = <<FirstRow>>
  /\ req = [r \in Slots |-> Idle]
  /\ users = Users
  /\ budget = MaxRequests
  /\ last = Done([Idle EXCEPT !.method = "POST", !.user = "u1", !.labId = "lab1",
                              !.instanceId = InstanceId(0, 1),
                              !.expiresAt = ExpiresAtFor(0)],
                 201, "", {CreatedJson(FirstRow)})

\* A request is received on the lowest free slot (slots are interchangeable).
Receive(r) ==
  /\ req[r].pc = "idle"
  /\ \A q \in 1..(r - 1) : req[q].pc # "idle"
  /\ budget > 0
  /\ budget' = budget - 1
  /\ UNCHANGED users

\* The handler of slot r goes on to its next await with locals `slot`.
Await(r, slot) ==
  /\ req' = [req EXCEPT ![r] = slot]
  /\ UNCHANGED last

\* The handler of slot r has sent its response: `done` is Done(...).
Finish(r, done) ==
  /\ req' = [req EXCEPT ![r] = Idle]
  /\ last' = done

\* --------------------------------------------------- POST /sessions
\* Arrival, body validation and the lab lookup.
PostSessions(r, u, labId) ==
  /\ Receive(r)
  /\ LET slot == [Idle EXCEPT !.method = "POST", !.user = u, !.labId = labId] IN
     IF labId = NoLabId
       THEN Finish(r, Done(slot, 400, "Lab ID is required", {}))
     ELSE IF Len(LabRows(labId)) = 0
       THEN Finish(r, Done(slot, 404, "Lab not found", {}))
     ELSE Await(r, [slot EXCEPT !.pc = "count"])
  /\ UNCHANGED <<now, env, sessions>>

\* The active-session count, the limit check and the values computed for
\* the insert (instanceId, expiresAt).
PostCount(r) ==
  /\ req[r].pc = "count"
  /\ LET activeSessionCount == ActiveCount(req[r].user)
         slot == [req[r] EXCEPT !.activeSessionCount = activeSessionCount] IN
     IF activeSessionCount >= maxSessions
       THEN Finish(r, Done(slot, 409, "Maximum active sessions reached", {}))
       ELSE \E sfx \in RandomSuffixes(now) :
              Await(r, [slot EXCEPT !.pc = "insert",
                                    !.instanceId = InstanceId(now, sfx),
                                    !.expiresAt = ExpiresAtFor(now)])
  /\ UNCHANGED <<now, env, sessions, users, budget>>

\* The INSERT on a table whose instance_id has no UNIQUE constraint.
PostInsertNoUnique(r) ==
  /\ req[r].pc = "insert"
  /\ LET row == NewSessionRow(Len(sessions) + 1, req[r].user, req[r].labId,
                              req[r].instanceId, req[r].expiresAt, now) IN
     /\ sessions' = Append(sessions, row)
     /\ Finish(r, Done(req[r], 201, "", {CreatedJson(row)}))
  /\ UNCHANGED <<now, env, users, budget>>

\* The INSERT.  instance_id is UNIQUE: a duplicate raises 23505, which the
\* error handler turns into ConflictError (409).
PostInsert(r) ==
  /\ req[r].pc = "insert"
  /\ IF \E i \in Ids : sessions[i].instance_id = req[r].instanceId
       THEN /\ Finish(r, Done(req[r], 409, "Resource already exists", {}))
            /\ UNCHANGED sessions
       ELSE LET row == NewSessionRow(Len(sessions) + 1, req[r].user, req[r].labId,
                                     req[r].instanceId, req[r].expiresAt, now) IN
            /\ sessions' = Append(sessions, row)
            /\ Finish(r, Done(req[r], 201, "", {CreatedJson(row)}))
  /\ UNCHANGED <<now, env, users, budget>>

\* --------------------------------------------------- GET /sessions/:id
\* The SELECT and the expiry check on the fetched row.
GetSession(r, u, id) ==
  /\ Receive(r)
  /\ LET slot == [Idle EXCEPT !.method = "GET", !.user = u, !.id = id]
         rows == SelectOwned(id, u) IN
     IF Len(rows) = 0
       THEN Finish(r, Done(slot, 404, "Workshop session not found", {}))
     ELSE IF IsOverdue(now, rows[1])
       THEN Await(r, [slot EXCEPT !.pc = "update", !.rows = rows, !.nowRead = now])
     ELSE Finish(r, Done(slot, 200, "", {SessionJson(rows[1])}))
  /\ UNCHANGED <<now, env, sessions>>

\* UPDATE ... SET status = 'expired' ... WHERE id = $1, then the response
\* built from the fetched row with status and ended_at overwritten locally.
GetUpdate(r) ==
  /\ req[r].pc = "update"
  /\ LET session == req[r].rows[1] IN
     /\ sessions' = [sessions EXCEPT ![session.id] = ExpireRow(@, now)]
     /\ Finish(r, Done(req[r], 200, "",
                       {SessionJson([session EXCEPT !.status = "expired",
                                                    !.ended_at = req[r].nowRead])}))
  /\ UNCHANGED <<now, env, users, budget>>

\* --------------------------------------------------- GET /sessions
\* The list handler with the expiry UPDATE of GET /sessions/:id applied to
\* the caller's overdue rows before they are listed.
ListSessionsExpiring(r, u) ==
  /\ Receive(r)
  /\ sessions' = [i \in Ids |->
        IF sessions[i].user_id = u /\ IsOverdue(now, sessions[i])
          THEN ExpireRow(sessions[i], now) ELSE sessions[i]]
  /\ Finish(r, Done([Idle EXCEPT !.method = "LIST", !.user = u], 200, "",
            {SessionJson(sessions'[i]) : i \in {j \in Ids : sessions[j].user_id = u}}))
  /\ UNCHANGED <<now, env>>

\* The rows of the caller (fewer than LIMIT 20); the order of the array is
\* not modelled.
ListSessions(r, u) ==
  /\ Receive(r)
  /\ Finish(r, Done([Idle EXCEPT !.method = "LIST", !.user = u], 200, "",
            {SessionJson(sessions[i]) : i \in {j \in Ids : sessions[j].user_id = u}}))
  /\ UNCHANGED <<now, env, sessions>>

\* --------------------------------------------------- DELETE /sessions/:id
\* The handler without its check of result.rows.length.
DeleteSessionNoRowCheck(r, u, id) ==
  /\ Receive(r)
  /\ LET slot    == [Idle EXCEPT !.method = "DELETE", !.user = u, !.id = id]
         matched == MatchActiveOwned(id, u) IN
     /\ sessions' = [i \in Ids |->
           IF i \in matched THEN TerminateRow(sessions[i], now) ELSE sessions[i]]
     /\ Finish(r, Done(slot, 200, "Workshop session terminated successfully", {}))
  /\ UNCHANGED <<now, env>>

DeleteSession(r, u, id) ==
  /\ Receive(r)
  /\ LET slot    == [Idle EXCEPT !.method = "DELETE", !.user = u, !.id = id]
         matched == MatchActiveOwned(id, u) IN
     IF matched = {}
       THEN /\ Finish(r, Done(slot, 404, "Active workshop session not found", {}))
            /\ UNCHANGED sessions
       ELSE /\ sessions' = [i \in Ids |->
                 IF i \in matched THEN TerminateRow(sessions[i], now) ELSE sessions[i]]
            /\ Finish(r, Done(slot, 200, "Workshop session terminated successfully", {}))
  /\ UNCHANGED <<now, env>>

\* --------------------------------------------------- PATCH /sessions/:id/extend
\* The client's extendSession.  The router has no route for it: after
\* authMiddleware the request falls through to the application's 404 handler,
\* which reads neither the id nor the requested time.
ExtendSession(r, u, id, hours) ==
  /\ Receive(r)
  /\ Finish(r, Done([Idle EXCEPT !.method = "PATCH", !.user = u, !.id = id],
                    404, "Not Found", {}))
  /\ UNCHANGED <<now, env, sessions>>

\* The clock advances.
Tick ==
  /\ now < MaxTime
  /\ now' = now + 1
  /\ UNCHANGED <<env, sessions, req, users, budget, last>>

\* ids a caller can name: the stored ones and one that is not stored
SessionIdArgs == 1..(Len(sessions) + 1)

Next ==
  \/ \E r \in Slots, u \in users, labId \in LabIdArgs : PostSessions(r, u, labId)
  \/ \E r \in Slots : PostCount(r)
  \/ \E r \in Slots : PostInsert(r)
  \/ \E r \in Slots, u \in users, id \in SessionIdArgs : GetSession(r, u, id)
  \/ \E r \in Slots : GetUpdate(r)
  \/ \E r \in Slots, u \in users : ListSessions(r, u)
  \/ \E r \in Slots, u \in users, id \in SessionIdArgs : DeleteSession(r, u, id)
  \/ \E r \in Slots, u \in users, id \in SessionIdArgs, hours \in ExtendArgs :
       ExtendSession(r, u, id, hours)
  \/ Tick

Spec == Init /\ [][Next]_vars

SpecRace == InitRace /\ [][Next]_vars

SpecRaceSmall == InitRaceSmall /\ [][Next]_vars

SpecCreated == InitCreated /\ [][Next]_vars

\* A handler in progress gets the answer of its query and goes on; the clock
\* advances.  Nothing obliges a caller to send a request, and the server
\* starts no periodic job (startServer only connects and listens).
Fairness ==
  /\ WF_vars(Tick)
  /\ \A r \in Slots : WF_vars(PostCount(r)) /\ WF_vars(PostInsert(r)) /\ WF_vars(GetUpdate(r))

FairSpec == Spec /\ Fairness

\* =================================================================== claims
\* Requests in progress and the one that finished last.
Handlers == {req[r] : r \in Slots} \cup {last}

\* C1: under any interleaving of createSession requests every owner has at
\* most perUserSessionCap sessions with status active (checked under
\* SpecRace, where the configured cap is the default 3 that the handler uses).
C1_PerUserCapHolds ==
  \A u \in Users : ActiveCount(u) <= Config.maxSessionsPerUser

\* C2: once a session's status is completed, expired or failed it never
\* changes again (checked under SpecRace, which has room for the create,
\* the getSession and the terminateSession of the race).
C2_TerminalIsFinal ==
  [][\A i \in Ids : sessions[i].status \in Terminal
                      => sessions'[i].status = sessions[i].status]_vars

\* C3: for every (ownerId, labRef) at most one session is pending or active.
C3_OneLivePerOwnerLab ==
  \A i, j \in Ids :
    (/\ sessions[i].user_id = sessions[j].user_id
     /\ sessions[i].lab_id = sessions[j].lab_id
     /\ sessions[i].status \in Live
     /\ sessions[j].status \in Live) => i = j

\* The pending/active sessions of the owner and lab of a createSession
\* handler h, the record of h itself excepted.
EarlierLive(h) ==
  {i \in Ids : /\ sessions[i].user_id = h.user
               /\ sessions[i].lab_id = h.labId
               /\ sessions[i].status \in Live
               /\ sessions[i].instance_id # h.instanceId}

\* The active-session count of h saw every other session of its owner: all
\* of them were stored and active when h made its admission check.
CountedAllOthers(h) ==
  h.activeSessionCount =
    Cardinality({i \in Ids : sessions[i].user_id = h.user
                              /\ sessions[i].instance_id # h.instanceId})

\* C4: a createSession for an (ownerId, labRef) whose earlier session is
\* still pending or active creates no second record and returns the id of
\* that earlier session.
C4_SecondCreateReturnsFirst ==
  (/\ last.method = "POST"
   /\ last.instanceId # <<>>
   /\ CountedAllOthers(last)
   /\ EarlierLive(last) # {})
  => /\ last.res.body # {}
     /\ \A b \in last.res.body : b.id \in EarlierLive(last)
     /\ \A i \in Ids : sessions[i].instance_id # last.instanceId

\* C5: the number of active sessions of all owners together is at most
\* globalSessionCap.
C5_GlobalCapHolds ==
  GlobalActiveCount <= Config.maxConcurrentSessions

\* A getSession or terminateSession on session i is in progress or was the
\* last request to finish.
Touching(i) ==
  \E h \in Handlers : h.method \in {"GET", "DELETE"} /\ h.id = i

\* C6: every session that is active and receives no further owner request is
\* eventually transitioned to expired.
C6_UntouchedEventuallyExpires ==
  \A i \in 1..MaxRequests :
    (i \in Ids /\ sessions[i].status = "active")
      ~> ((i \in Ids /\ sessions[i].status = "expired") \/ Touching(i))

\* C7: no session is moved to expired while now < expiresAt.
C7_NoEarlyExpiry ==
  [][\A i \in Ids : (sessions[i].status # "expired" /\ sessions'[i].status = "expired")
                      => now >= sessions[i].expires_at]_vars

\* a session was moved to expired, by a getSession that found it overdue
C7_Witness ==
  \E i \in Ids : /\ sessions[i].status = "expired"
                 /\ last.method = "GET" /\ last.id = i /\ last.res.status = 200

\* C8: endedAt is set if and only if status is completed, expired or failed.
C8_EndedAtIffTerminal ==
  \A i \in Ids : (sessions[i].ended_at # NULL) <=> (sessions[i].status \in Terminal)

\* a session just terminated by its owner
C8_Witness ==
  \E i \in Ids : /\ sessions[i].status = "completed" /\ sessions[i].ended_at # NULL
                 /\ last.method = "DELETE" /\ last.id = i /\ last.res.status = 200

\* C9: expiresAt is set if and only if status is active, completed or expired.
C9_ExpiresAtIffActivated ==
  \A i \in Ids : (sessions[i].expires_at # NULL)
                   <=> (sessions[i].status \in {"active", "completed", "expired"})

\* a session that was active and keeps its expiresAt after it ended
C9_Witness ==
  \E i \in Ids : /\ sessions[i].status \in {"completed", "expired"}
                 /\ sessions[i].expires_at = ExpiresAtFor(sessions[i].instance_id[1])

\* C10: a createSession by an owner who already has c active sessions, c the
\* configured per-user cap, is rejected with the capacity error and creates
\* no record.
C10_RejectedAtConfiguredCap ==
  \A h \in Handlers :
    (/\ h.method = "POST"
     /\ h.pc \in {"insert", "done"}
     /\ h.activeSessionCount >= Config.maxSessionsPerUser)
    => /\ h.pc = "done"
       /\ h.res.status = 409
       /\ h.res.error = "Maximum active sessions reached"

Min(a, b) == IF a <= b THEN a ELSE b

\* startedAt + maxSessionDuration: the session time plus the longest extension
LatestExpiry(row) == row.started_at + SessionHours + MaxExtensionHours

\* C11: expiresAt never exceeds startedAt + maxSessionDuration, and an
\* extendSession by the owner of an active session sets expiresAt to
\* min(expiresAt + requested, startedAt + maxSessionDuration).
C11_ExtendSetsCappedExpiry ==
  [][/\ \A i \in 1..Len(sessions') : sessions'[i].expires_at <= LatestExpiry(sessions'[i])
     /\ \A r \in Slots, u \in users, id \in Ids, hours \in ExtendArgs :
          (/\ ExtendSession(r, u, id, hours)
           /\ sessions[id].user_id = u
           /\ sessions[id].status = "active")
          => sessions'[id].expires_at =
               Min(sessions[id].expires_at + hours, LatestExpiry(sessions[id]))]_vars

C13_TerminateTerminalNoChange ==
  [][\A r \in Slots, u \in users, id \in Ids :
       (DeleteSession(r, u, id) /\ sessions[id].status \in Terminal)
         => sessions'[id] = sessions[id]]_vars

\* the owner's terminateSession came after the session had ended, at a later
\* clock reading than the one stored in the record
C13_Witness ==
  \E i \in Ids : /\ sessions[i].status \in Terminal
                 /\ sessions[i].updated_at < now
                 /\ last.method = "DELETE" /\ last.id = i
                 /\ last.user = sessions[i].user_id
                 /\ last.res.error = "Active workshop session not found"

\* The request received on slot r in this step was answered NotFound.
Denied(r) == req'[r].pc = "idle" /\ last'.res.status = 404

\* C14: a caller who is neither the owner of a session nor an administrator
\* never obtains it through getSession and never changes it through
\* terminateSession or extendSession: the call is answered NotFound with no
\* session in the response and the stored records are unchanged.
C14_StrangerDenied ==
  [][\A r \in Slots, u \in users, id \in Ids :
       (/\ sessions[id].user_id # u
        /\ RoleOf[u] # "admin"
        /\ \/ GetSession(r, u, id)
           \/ DeleteSession(r, u, id)
           \/ \E hours \in ExtendArgs : ExtendSession(r, u, id, hours))
       => /\ Denied(r)
          /\ last'.user = u /\ last'.id = id
          /\ last'.res.body = {}
          /\ sessions' = sessions]_vars

\* a student asked for the stored session of another user and got NotFound
C14_Witness ==
  \E i \in Ids : /\ last.method \in {"GET", "DELETE"} /\ last.id = i
                 /\ last.user # sessions[i].user_id
                 /\ RoleOf[last.user] # "admin"
                 /\ last.res.status = 404

\* C15: the access decision of getSession and terminateSession is
\* (caller = owner) or (caller is an administrator): on an active session
\* the call is answered NotFound exactly when neither holds.
C15_OwnerOrAdminPasses ==
  [][\A r \in Slots, u \in users, id \in Ids :
       (/\ sessions[id].status = "active"
        /\ GetSession(r, u, id) \/ DeleteSession(r, u, id))
       => (Denied(r) <=> ~(sessions[id].user_id = u \/ RoleOf[u] = "admin"))]_vars

\* C16: every session is created with status pending; none is stored as
\* active by the step that creates it.
C16_CreatedPending ==
  [][\A i \in 1..Len(sessions') :
       i \notin Ids => sessions'[i].status = "pending"]_vars

\* C18: no step removes a session record (the stored ids only grow and every
\* record keeps its id), and terminateSession changes nothing but status,
\* endedAt and updatedAt of a record.
C18_RecordsKept ==
  [][/\ Len(sessions') >= Len(sessions)
     /\ \A i \in Ids : sessions'[i].id = sessions[i].id
     /\ \A r \in Slots, u \in users, id \in SessionIdArgs :
          DeleteSession(r, u, id)
            => \A i \in Ids :
                 [sessions'[i] EXCEPT !.status = sessions[i].status,
                                      !.ended_at = sessions[i].ended_at,
                                      !.updated_at = sessions[i].updated_at]
                   = sessions[i]]_vars

\* a session was terminated by its owner and its record is still stored
\* under its id with the expiration it was created with
C18_Witness ==
  \E i \in Ids : /\ last.method = "DELETE" /\ last.id = i
                 /\ last.res.status = 200
                 /\ sessions[i].id = i
                 /\ sessions[i].status = "completed"
                 /\ sessions[i].expires_at = ExpiresAtFor(sessions[i].instance_id[1])

\* C19: endedAt is written at most once per session: every step that writes
\* it (the expiry UPDATE of getSession, the UPDATE of terminateSession) finds
\* it unset, also when two getSession calls race on one overdue session or a
\* getSession races with a terminateSession.
C19_EndedAtWrittenOnce ==
  [][\A r \in Slots :
       /\ GetUpdate(r) => sessions[req[r].rows[1].id].ended_at = NULL
       /\ \A u \in users, id \in Ids :
            (DeleteSession(r, u, id) /\ last'.res.status = 200)
              => sessions[id].ended_at = NULL]_vars

\* C20: the active sessions of an owner exceed perUserSessionCap by at most
\* the number of that owner's createSession requests in flight together
\* between count and insert, of which there are never more than MaxInFlight.
C20_OvershootBounded ==
  \A u \in Users : ActiveCount(u) <= Config.maxSessionsPerUser + MaxInFlight

\* C21: the transition active -> expired is made by the Expiration Sweeper
\* only: no step of a caller-facing request (one that receives a request,
\* continues a handler or sends a response) moves a session to expired.
C21_OnlySweeperExpires ==
  [][(\E i \in Ids : sessions[i].status = "active" /\ sessions'[i].status = "expired")
       => (req' = req /\ last' = last /\ budget' = budget)]_vars

\* C22: for every session that became active, expiresAt = startedAt +
\* sessionDuration exactly, sessionDuration the configured value in minutes
\* (timestamps are in hours).
C22_ExpiresAtExact ==
  \A i \in Ids :
    sessions[i].status \in {"active", "completed", "expired"}
      => sessions[i].expires_at * 60
           = sessions[i].started_at * 60 + Config.sessionTimeoutMinutes

\* C23: no step changes id, ownerId, labRef, instanceId, createdAt or
\* startedAt of a stored session.
C23_ImmutableFields ==
  [][\A i \in Ids :
       /\ sessions'[i].id = sessions[i].id
       /\ sessions'[i].user_id = sessions[i].user_id
       /\ sessions'[i].lab_id = sessions[i].lab_id
       /\ sessions'[i].instance_id = sessions[i].instance_id
       /\ sessions'[i].created_at = sessions[i].created_at
       /\ sessions'[i].started_at = sessions[i].started_at]_vars

\* a session was rewritten, at a later clock reading than its creation, by
\* the expiry UPDATE
C23_Witness ==
  \E i \in Ids : /\ sessions[i].status = "expired"
                 /\ sessions[i].updated_at > sessions[i].created_at
                 /\ sessions[i].started_at = sessions[i].created_at

\* C24: no two session records share an instanceId, and an INSERT whose
\* instanceId is already stored is rejected and creates no record.
C24_InstanceIdUnique ==
  [][/\ \A i, j \in 1..Len(sessions') :
          sessions'[i].instance_id = sessions'[j].instance_id => i = j
     /\ \A r \in Slots :
          (/\ PostInsert(r)
           /\ \E i \in Ids : sessions[i].instance_id = req[r].instanceId)
          => /\ sessions' = sessions
             /\ last'.res.status = 409
             /\ last'.res.body = {}]_vars

\* a createSession drew the instanceId of a stored session and was rejected
C24_Witness ==
  /\ last.method = "POST"
  /\ last.res.error = "Resource already exists"
  /\ \E i \in Ids : sessions[i].instance_id = last.instanceId

\* C25: every stored session is for a lab that exists and is published, and
\* a createSession naming a lab that does not exist or is not published is
\* answered NotFound on arrival, before the active-session count, and
\* creates no record.
C25_LabMustBePublished ==
  [][/\ \A i \in 1..Len(sessions') :
          /\ sessions'[i].lab_id \in DOMAIN LabsTable
          /\ LabsTable[sessions'[i].lab_id]
     /\ \A r \in Slots, u \in users, labId \in LabIdArgs \ {NoLabId} :
          (/\ PostSessions(r, u, labId)
           /\ ~(labId \in DOMAIN LabsTable /\ LabsTable[labId]))
          => /\ req'[r].pc = "idle"
             /\ last'.res.status = 404
             /\ last'.res.error = "Lab not found"
             /\ sessions' = sessions]_vars

\* a createSession for the unpublished lab was answered NotFound while the
\* published lab has a stored session
C25_Witness ==
  /\ last.method = "POST"
  /\ last.labId = "lab2"
  /\ last.res.status = 404
  /\ \E i \in Ids : sessions[i].lab_id = "lab1"

\* The active sessions of owner u whose expiresAt has passed.
OverdueActive(u) ==
  {i \in Ids : /\ sessions[i].user_id = u
               /\ sessions[i].status = "active"
               /\ now > sessions[i].expires_at}

\* C26: createSession counts active sessions whose expiresAt has passed: an
\* owner holding cap-many of them, cap the configured per-user cap, is
\* rejected by the admission check and no record is created.
C26_OverdueStillCounted ==
  [][\A r \in Slots :
       (/\ PostCount(r)
        /\ Cardinality(OverdueActive(req[r].user)) >= Config.maxSessionsPerUser)
       => /\ req'[r].pc = "idle"
          /\ last'.res.status = 409
          /\ sessions' = sessions]_vars

\* C27: terminateSession does not consult expiresAt: the owner's call on an
\* active session moves it to completed with endedAt = now, also after the
\* deadline has passed.
C27_TerminateIgnoresDeadline ==
  [][\A r \in Slots, u \in users, id \in Ids :
       (/\ DeleteSession(r, u, id)
        /\ sessions[id].user_id = u
        /\ sessions[id].status = "active")
       => /\ sessions'[id].status = "completed"
          /\ sessions'[id].ended_at = now
          /\ last'.res.status = 200]_vars

\* a session completed after its deadline: endedAt > expiresAt
C27_Witness ==
  \E i \in Ids : /\ sessions[i].status = "completed"
                 /\ sessions[i].ended_at > sessions[i].expires_at
                 /\ last.method = "DELETE" /\ last.id = i

\* C28: getSession writes only after it fetched a session of the caller
\* with status active and now > expiresAt: its arrival step writes nothing
\* and goes on to the UPDATE in that case only; in every other case it
\* answers at once with the records unchanged.
C28_GetWritesOnlyOverdue ==
  [][\A r \in Slots :
       /\ \A u \in users, id \in SessionIdArgs :
            GetSession(r, u, id)
              => /\ sessions' = sessions
                 /\ req'[r].pc = "update"
                      <=> /\ id \in Ids
                          /\ sessions[id].user_id = u
                          /\ sessions[id].status = "active"
                          /\ now > sessions[id].expires_at
       /\ GetUpdate(r)
            => /\ req[r].rows[1].status = "active"
               /\ req[r].nowRead > req[r].rows[1].expires_at]_vars

\* a second getSession, after the one that expired the session, answered at
\* once with the stored record
C28_Witness ==
  /\ last.method = "GET"
  /\ last.rows = <<>>
  /\ last.res.status = 200
  /\ last.id \in Ids
  /\ sessions[last.id].status = "expired"
  /\ last.res.body = {SessionJson(sessions[last.id])}

\* C29: listSessions changes no record and lists the caller's sessions as
\* stored, so an overdue session is listed with status active; a session
\* stops being active only by a getSession or terminateSession naming it.
C29_ListChangesNothing ==
  [][/\ \A r \in Slots, u \in users :
          ListSessions(r, u)
            => /\ sessions' = sessions
               /\ last'.res.body
                    = {SessionJson(sessions[i]) : i \in {j \in Ids : sessions[j].user_id = u}}
     /\ \A i \in Ids :
          (sessions[i].status = "active" /\ sessions'[i].status # "active")
            => (last'.method \in {"GET", "DELETE"} /\ last'.id = i)]_vars

\* an overdue session was listed with status active
C29_Witness ==
  /\ last.method = "LIST"
  /\ \E b \in last.res.body : b.status = "active" /\ b.expiresAt < now

\* C30: for every session createdAt <= startedAt < expiresAt, and
\* startedAt <= endedAt whenever endedAt is set.
C30_TimestampsOrdered ==
  \A i \in Ids :
    /\ sessions[i].created_at <= sessions[i].started_at
    /\ sessions[i].started_at < sessions[i].expires_at
    /\ sessions[i].ended_at # NULL => sessions[i].started_at <= sessions[i].ended_at

====
